---- MODULE Spec2Model ----
(***************************************************************************)
(* Client-side APM bookkeeping of the front-end application:               *)
(*   - the span/transaction tracker (app/utils/apm: requests, renders,     *)
(*     flushTransactionTimeout, interruptFlush),                           *)
(*   - the render Profiler wrapper (spansById, debounced commit),          *)
(*   - PercentageAreaChart.getSeries.                                      *)
(* The browser's timers and the tracing SDK's spans are modelled as far as *)
(* the program reads or writes them.                                       *)
(***************************************************************************)
EXTENDS Integers, Sequences, FiniteSets, TLC

\* ------------------------------------------------------------------------
\* Bounds and input sets
\* ------------------------------------------------------------------------
\* Identifiers of requests and renders (component display names).
Ids == {"a", "b"}
\* Spans the SDK may allocate in one run (caps the heap).
MaxSpans == 3
\* window.performance.timing.navigationStart values (ms).
NavigationStarts == {1000}
\* onRender's startTime and actualDuration arguments (ms).
StartTimes == {100}
Durations == {50, 20}
\* PercentageAreaChart: the number of series, the values of a point, and the
\* point names of a series (the same in every series).
MaxSeries == 3
MaxValue == 2
PointNameLists == {<<"t1", "t2">>, <<"t1", "t1">>}

\* JavaScript's undefined, for a timer handle or a span reference (ids are positive).
Undefined == 0
\* Timestamps (seconds): undefined, a reading of the SDK's clock, or ms / 1000.
UndefinedTs == [kind |-> "undefined", num |-> 0, den |-> 1]
Now == [kind |-> "now", num |-> 0, den |-> 1]

VARIABLES
  firstPageLoad,            \* apm: let firstPageLoad
  requests,                 \* apm: const requests = new Map([])
  renders,                  \* apm: const renders = new Map([])
  flushTransactionTimeout,  \* apm: let flushTransactionTimeout (Undefined or a timer id)
  interruptFlush,           \* apm: let interruptFlush
  timers,                   \* browser: the pending timeouts set by finishTransaction, [id, delay]
  listening,                \* router: the browserHistory listener startApm registered
  scopeSpan,                \* SDK: the span bound on the hub's scope (Undefined or a span id)
  spans,                    \* SDK: the span objects, by id (a sequence: the heap)
  navigationStart,          \* browser: window.performance.timing.navigationStart
  spansById,                \* Profiler: this.spansById
  commitPending,            \* Profiler: the debounced commit's timer and last arguments
  trace,                    \* the calls the last handler made, in order
  lastOp,                   \* the last handler that ran, with its arguments
  flushLog,                 \* history: the flushes fired since the last start operation
  scn,                      \* history: progress through start a, start b, finish a, finish b
  burst,                    \* history: the mount and the updates the pending commit stands for
  disposedUpTo,             \* history: how many spans existed at the last dispose
  lastCall,                 \* history: per registry and id, the last call: start or finish
  preempted,                \* history: a start has cancelled a flush timer that was pending
  recording,                \* history: whether lastCall and preempted are kept up
  series,                   \* PercentageAreaChart: this.props.series
  seriesOut                 \* PercentageAreaChart: the data getSeries returned, per series

progVars == <<firstPageLoad, requests, renders, flushTransactionTimeout, interruptFlush,
              timers, listening, scopeSpan, spans, navigationStart, spansById,
              commitPending>>

\* ------------------------------------------------------------------------
\* The program state as one record, so that handlers are functions on it
\* ------------------------------------------------------------------------
World ==
  [firstPageLoad |-> firstPageLoad, requests |-> requests, renders |-> renders,
   flushTransactionTimeout |-> flushTransactionTimeout,
   interruptFlush |-> interruptFlush, timers |-> timers, listening |-> listening,
   scopeSpan |-> scopeSpan, spans |-> spans, navigationStart |-> navigationStart,
   spansById |-> spansById, commitPending |-> commitPending, trace |-> <<>>]

EmptyMap == [k \in {} |-> FALSE]

\* Map.prototype.set
MapSet(m, k, v) == [x \in (DOMAIN m) \cup {k} |-> IF x = k THEN v ELSE m[x]]

\* Array.from(map).find(([, active]) => active), as a boolean
HasActive(m) == \E k \in DOMAIN m : m[k] = TRUE

\* The handler made a call; hit tells whether a clearTimeout cancelled a pending timer.
Logged(w, name, arg, hit) ==
  [w EXCEPT !.trace = Append(@, [call |-> name, arg |-> arg, hit |-> hit])]

Call(w, name, arg) == Logged(w, name, arg, FALSE)

\* ------------------------------------------------------------------------
\* Browser timers
\* ------------------------------------------------------------------------
TimerIdsOf(w) == {t.id : t \in w.timers}

\* setTimeout returns a positive id that no pending timer has. The program holds
\* one handle and overwrites it with every id setTimeout returns, so ids are
\* named by the least one not pending.
FreshTimerId(w) ==
  CHOOSE n \in 1..(Cardinality(w.timers) + 1) :
    /\ n \notin TimerIdsOf(w)
    /\ \A m \in 1..(n - 1) : m \in TimerIdsOf(w)

\* clearTimeout(id): a no-op for undefined and for an id that is no longer pending.
clearTimeout(w, id) ==
  Logged([w EXCEPT !.timers = {t \in @ : t.id # id}], "clearTimeout", id,
         id \in TimerIdsOf(w))

\* ------------------------------------------------------------------------
\* Tracing SDK: spans
\* ------------------------------------------------------------------------
\* x / 1000 of a millisecond value, as the fraction it is.
Div1000(x) == [kind |-> "number", num |-> x, den |-> 1000]

\* !timestamp
Falsy(ts) == ts = UndefinedTs \/ (ts.kind = "number" /\ ts.num = 0)

NewSpan(op) ==
  [op |-> op, startTimestamp |-> Now, timestamp |-> UndefinedTs, finishedSpans |-> <<>>]

\* Sentry.startSpan(context, bindOnScope): a new span object, bound on the scope
\* when bindOnScope is true. The result's id is Len(w.spans) of the new world.
startSpan(w, op, bindOnScope) ==
  LET id == Len(w.spans) + 1
      w1 == [w EXCEPT !.spans = Append(@, NewSpan(op)),
                      !.scopeSpan = IF bindOnScope THEN id ELSE @]
  IN Call(w1, "startSpan", id)

\* hub.finishSpan(span): with no argument the span of the scope; nothing when
\* there is none; span.finish() when it has no end timestamp. The spans of this
\* program carry no transaction name, so nothing is captured.
finishSpan(w, span) ==
  LET passedSpan == IF span = Undefined THEN w.scopeSpan ELSE span
      w0 == Call(w, "finishSpan", span)
  IN IF passedSpan = Undefined
       THEN w0
       ELSE IF Falsy(w0.spans[passedSpan].timestamp)
              THEN [w0 EXCEPT !.spans[passedSpan].timestamp = Now]
              ELSE w0

\* ------------------------------------------------------------------------
\* app/utils/apm
\* ------------------------------------------------------------------------
\* delay || 5000
DefaultDelay == 5000
FlushDelay == 1
DelayOr(delay) == IF delay = 0 THEN DefaultDelay ELSE delay

\* finishTransaction whose guard forgets to cancel the previous timer.
finishTransactionNoClear(w, delay) ==
  LET w0 == Call(w, "finishTransaction", delay)
      id == FreshTimerId(w0)
  IN Call([w0 EXCEPT !.timers = @ \cup {[id |-> id, delay |-> DelayOr(delay)]},
                     !.flushTransactionTimeout = id],
          "setTimeout", DelayOr(delay))

finishTransaction(w, delay) ==
  LET w0 == Call(w, "finishTransaction", delay)
      w1 == IF w0.flushTransactionTimeout # Undefined
              THEN clearTimeout(w0, w0.flushTransactionTimeout)
              ELSE w0
      w2 == IF HasActive(w1.requests) \/ HasActive(w1.renders)
              THEN clearTimeout(w1, w1.flushTransactionTimeout)
              ELSE w1
      id == FreshTimerId(w2)
  IN Call([w2 EXCEPT !.timers = @ \cup {[id |-> id, delay |-> DelayOr(delay)]},
                     !.flushTransactionTimeout = id],
          "setTimeout", DelayOr(delay))

\* A flush callback that also resets the interrupt flag.
flushCallbackResetting(w, id) ==
  finishSpan([w EXCEPT !.timers = {t \in @ : t.id # id}, !.interruptFlush = FALSE],
             Undefined)

\* A flush callback whose timer stays pending (setInterval for setTimeout).
flushCallbackRepeating(w, id) == finishSpan(w, Undefined)

\* The callback of finishTransaction's timer: Sentry.finishSpan()
flushCallback(w, id) ==
  finishSpan([w EXCEPT !.timers = {t \in @ : t.id # id}], Undefined)

\* startTransaction that starts the new span without finishing the previous one.
startTransactionNoFinish(w) ==
  LET w1 == IF w.firstPageLoad
              THEN [w EXCEPT !.firstPageLoad = FALSE]
              ELSE startSpan(w, "navigation", TRUE)
  IN finishTransaction(w1, DefaultDelay)

startTransaction(w) ==
  LET w1 == IF w.firstPageLoad
              THEN [w EXCEPT !.firstPageLoad = FALSE]
              ELSE LET prevTransactionSpan == w.scopeSpan
                       w2 == IF /\ prevTransactionSpan # Undefined
                                /\ w.spans[prevTransactionSpan].timestamp = UndefinedTs
                               THEN finishSpan(w, prevTransactionSpan)
                               ELSE w
                   IN startSpan(w2, "navigation", TRUE)
  IN finishTransaction(w1, DefaultDelay)

\* startRequest that raises the interrupt flag but leaves the timer running.
startRequestNoClear(w, id) ==
  LET w1 == IF w.flushTransactionTimeout # Undefined
              THEN [w EXCEPT !.interruptFlush = TRUE]
              ELSE w
  IN [w1 EXCEPT !.requests = MapSet(@, id, TRUE)]

startRequest(w, id) ==
  LET w1 == IF w.flushTransactionTimeout # Undefined
              THEN [clearTimeout(w, w.flushTransactionTimeout)
                      EXCEPT !.interruptFlush = TRUE]
              ELSE w
  IN [w1 EXCEPT !.requests = MapSet(@, id, TRUE)]

\* finishRequest that flushes whenever the interrupt flag is set, whatever is active.
finishRequestIgnoringActivity(w, id) ==
  LET w1 == [w EXCEPT !.requests = MapSet(@, id, FALSE)]
  IN IF w1.interruptFlush THEN finishTransaction(w1, FlushDelay) ELSE w1

\* finishRequest that deletes the entry instead of setting it false.
finishRequestDeleting(w, id) ==
  LET w1 == [w EXCEPT !.requests = [k \in (DOMAIN @) \ {id} |-> @[k]]]
  IN IF /\ w1.interruptFlush
        /\ ~HasActive(w1.requests)
        /\ ~HasActive(w1.renders)
       THEN finishTransaction(w1, FlushDelay)
       ELSE w1

finishRequest(w, id) ==
  LET w1 == [w EXCEPT !.requests = MapSet(@, id, FALSE)]
  IN IF /\ w1.interruptFlush
        /\ ~HasActive(w1.requests)
        /\ ~HasActive(w1.renders)
       THEN finishTransaction(w1, FlushDelay)
       ELSE w1

startRender(w, id) ==
  LET w0 == Call(w, "startRender", id)
      w1 == IF w0.flushTransactionTimeout # Undefined
              THEN [clearTimeout(w0, w0.flushTransactionTimeout)
                      EXCEPT !.interruptFlush = TRUE]
              ELSE w0
  IN [w1 EXCEPT !.renders = MapSet(@, id, TRUE)]

\* finishRender written as finishRequest is, on the render registry.
finishRenderLikeRequest(w, id) ==
  LET w0 == Call(w, "finishRender", id)
      w1 == [w0 EXCEPT !.renders = MapSet(@, id, FALSE)]
  IN IF /\ w1.interruptFlush
        /\ ~HasActive(w1.requests)
        /\ ~HasActive(w1.renders)
       THEN finishTransaction(w1, FlushDelay)
       ELSE w1

\* finishRender that returns at once for an identifier its registry does not hold.
finishRenderOnlyKnown(w, id) ==
  IF id \notin DOMAIN w.renders
    THEN Call(w, "finishRender", id)
    ELSE LET w0 == Call(w, "finishRender", id)
             w1 == [w0 EXCEPT !.renders = MapSet(@, id, FALSE)]
             w2 == IF w1.flushTransactionTimeout # Undefined
                     THEN [clearTimeout(w1, w1.flushTransactionTimeout)
                             EXCEPT !.interruptFlush = TRUE]
                     ELSE w1
         IN IF /\ w2.interruptFlush
               /\ ~HasActive(w2.requests)
               /\ ~HasActive(w2.renders)
              THEN finishTransaction(w2, FlushDelay)
              ELSE w2

finishRender(w, id) ==
  LET w0 == Call(w, "finishRender", id)
      w1 == [w0 EXCEPT !.renders = MapSet(@, id, FALSE)]
      w2 == IF w1.flushTransactionTimeout # Undefined
              THEN [clearTimeout(w1, w1.flushTransactionTimeout)
                      EXCEPT !.interruptFlush = TRUE]
              ELSE w1
  IN IF /\ w2.interruptFlush
        /\ ~HasActive(w2.requests)
        /\ ~HasActive(w2.renders)
       THEN finishTransaction(w2, FlushDelay)
       ELSE w2

\* startApm: the pageload span, the first startTransaction, the router listener.
startApm(w) ==
  [startTransaction(startSpan(w, "pageload", TRUE)) EXCEPT !.listening = TRUE]

\* ------------------------------------------------------------------------
\* Profiler
\* ------------------------------------------------------------------------
DebounceWait == 500
NoCommit == [pending |-> FALSE, id |-> "", span |-> Undefined, timestamp |-> UndefinedTs]

\* this.commit(id, span, timestamp): lodash debounce, trailing edge. A call
\* (re)starts the wait and replaces the arguments of the pending invocation.
commit(w, id, span, timestamp) ==
  Call([w EXCEPT !.commitPending =
                   [pending |-> TRUE, id |-> id, span |-> span, timestamp |-> timestamp]],
       "commit", span)

\* The debounced function, run once with the last arguments when the wait is over.
commitCallback(w) ==
  LET id == w.commitPending.id
      span == w.commitPending.span
      w1 == [w EXCEPT !.commitPending = NoCommit,
                      !.spans[span].timestamp = w.commitPending.timestamp,
                      !.spans[span].finishedSpans = Append(@, span)]
  IN finishRender(finishSpan(w1, span), id)

\* An end timestamp that leaves out the navigation origin.
EndTimestampWithoutStart(start, startTime, actualDuration) ==
  Div1000(startTime + actualDuration)

\* (start + startTime + actualDuration) / 1000
EndTimestamp(start, startTime, actualDuration) ==
  Div1000(start + startTime + actualDuration)

\* (start + startTime) / 1000
StartTimestamp(start, startTime) == Div1000(start + startTime)

\* handleRender that takes every phase for a mount.
handleRenderAlwaysMount(w, id, phase, actualDuration, startTime) ==
  LET start == w.navigationStart
      w1 == startSpan(startRender(w, id), "react", FALSE)
      span == Len(w1.spans)
      w2 == [w1 EXCEPT !.spans[span].startTimestamp = StartTimestamp(start, startTime)]
      w3 == commit(w2, id, span, EndTimestamp(start, startTime, actualDuration))
  IN [w3 EXCEPT !.spansById = MapSet(@, id, span)]

handleRender(w, id, phase, actualDuration, startTime) ==
  LET start == w.navigationStart
  IN IF phase = "mount"
       THEN LET w1 == startSpan(startRender(w, id), "react", FALSE)
                span == Len(w1.spans)
                w2 == [w1 EXCEPT !.spans[span].startTimestamp =
                                    StartTimestamp(start, startTime)]
                w3 == commit(w2, id, span, EndTimestamp(start, startTime, actualDuration))
            IN [w3 EXCEPT !.spansById = MapSet(@, id, span)]
       ELSE IF id \in DOMAIN w.spansById
              THEN [w EXCEPT !.spans[w.spansById[id]].timestamp =
                               EndTimestamp(start, startTime, actualDuration)]
              ELSE w

EmptySpanMap == [k \in {} |-> Undefined]

\* A dispose that also cancels the pending debounced commit.
disposeCancelling(w) ==
  [w EXCEPT !.spansById = EmptySpanMap, !.commitPending = NoCommit]

\* A dispose that keeps the map.
disposeKeepingSpans(w) == w

dispose(w) == [w EXCEPT !.spansById = EmptySpanMap]

\* ------------------------------------------------------------------------
\* PercentageAreaChart
\* ------------------------------------------------------------------------
\* x / 10, as the fraction it is
Div10(x) == [num |-> x, den |-> 10]

\* Math.round of the non-negative fraction p / q: the nearest integer, halves up
MathRound(p, q) == (2 * p + q) \div (2 * q)

\* A getValue that rounds to whole percents.
getValueWholePercent(value, total) ==
  IF total # 0 THEN Div10(10 * MathRound(value * 100, total)) ELSE Div10(0)

\* defaultProps.getValue: total ? Math.round((value / total) * 1000) / 10 : 0
getValue(value, total) ==
  IF total # 0 THEN Div10(MathRound(value * 1000, total)) ELSE Div10(0)

RECURSIVE SumValues(_, _, _)
\* ss.reduce((sum, {data}) => sum + data[i].value, 0), over the first n series
SumValues(ss, i, n) ==
  IF n = 0 THEN 0 ELSE SumValues(ss, i, n - 1) + ss[n][i].value

\* totalsArray: [name, total] for every point of the first series
TotalsArray(ss) ==
  IF Len(ss) # 0
    THEN [i \in DOMAIN ss[1] |->
            [name |-> ss[1][i].name, total |-> SumValues(ss, i, Len(ss))]]
    ELSE <<>>

\* new Map(totalsArray).get(name): the last entry of that name; undefined (falsy,
\* here 0) when there is none
TotalsGet(totalsArray, name) ==
  LET at == {i \in DOMAIN totalsArray : totalsArray[i].name = name}
  IN IF at = {} THEN 0
     ELSE totalsArray[CHOOSE i \in at : \A j \in at : j <= i].total

\* getSeries: per series, [getDataItemName(dataObj), getValue(dataObj, total)]
getSeries(ss) ==
  LET totalsArray == TotalsArray(ss)
  IN [k \in DOMAIN ss |->
        [j \in DOMAIN ss[k] |->
           [name |-> ss[k][j].name,
            value |-> getValue(ss[k][j].value, TotalsGet(totalsArray, ss[k][j].name))]]]

\* The series props: up to MaxSeries series over the same point names.
SeriesInputs ==
  UNION {UNION {[1..n -> {[j \in DOMAIN names |-> [name |-> names[j], value |-> vs[j]]] :
                           vs \in [DOMAIN names -> 0..MaxValue]}] :
                n \in 0..MaxSeries} :
         names \in PointNameLists}

\* ------------------------------------------------------------------------
\* The state machine
\* ------------------------------------------------------------------------
\* A handler's name and arguments (0 and "" where it takes none).
Event(name, id, actualDuration, startTime) ==
  [op |-> name, id |-> id, actualDuration |-> actualDuration, startTime |-> startTime]

Op(name, id) == [op |-> name, id |-> id]

\* no entry of either registry is true
Quiescent == ~HasActive(requests) /\ ~HasActive(renders)

\* The operations that start activity or a transaction.
StartOps == {"startRequest", "startRender", "mount", "startApm", "routeChange"}

NoFlushes == [n |-> 0, quiet |-> FALSE, busy |-> FALSE]

\* The flushes since the last start operation: how many (counted up to 2), and
\* whether one fired with the registries quiescent (quiet) or not (busy).
NextFlushLog(op) ==
  IF op.op \in StartOps THEN NoFlushes
  ELSE IF op.op = "flush"
    THEN [n |-> IF flushLog.n < 2 THEN flushLog.n + 1 ELSE 2,
          quiet |-> flushLog.quiet \/ Quiescent,
          busy |-> flushLog.busy \/ ~Quiescent]
    ELSE flushLog

NoScenario == [step |-> 0, scheduled |-> FALSE]

\* The scenario startRequest(a), startRequest(b), finishRequest(a), finishRequest(b),
\* begun in a quiescent state; scheduled: a flush had been scheduled before it began.
NextScn(op) ==
  IF op.op = "startRequest" /\ op.id = "a" /\ Quiescent
    THEN [step |-> 1, scheduled |-> flushTransactionTimeout # Undefined]
  ELSE IF scn.step = 1 /\ op.op = "startRequest" /\ op.id = "b"
    THEN [scn EXCEPT !.step = 2]
  ELSE IF scn.step = 2 /\ op.op = "finishRequest" /\ op.id = "a"
    THEN [scn EXCEPT !.step = 3]
  ELSE IF scn.step = 3 /\ op.op = "finishRequest" /\ op.id = "b"
    THEN [scn EXCEPT !.step = 4]
  ELSE NoScenario

NoBurst ==
  [id |-> "", span |-> Undefined, actualDuration |-> 0, startTime |-> 0,
   latest |-> UndefinedTs, updated |-> FALSE, disposed |-> FALSE]

\* The events the pending commit stands for: the mount that called commit, the
\* end timestamp of the latest event for its identifier, whether updates came,
\* and whether the Profiler was disposed meanwhile. w is the world after op.
NextBurst(w, op) ==
  IF op.op = "mount"
    THEN [id |-> op.id, span |-> w.commitPending.span,
          actualDuration |-> op.actualDuration, startTime |-> op.startTime,
          latest |-> Div1000(navigationStart + op.startTime + op.actualDuration),
          updated |-> FALSE, disposed |-> FALSE]
  ELSE IF op.op = "commitFire" THEN burst
  ELSE IF ~commitPending.pending THEN NoBurst
  ELSE IF op.op = "update" /\ op.id = burst.id
    THEN [burst EXCEPT
            !.latest = Div1000(navigationStart + op.startTime + op.actualDuration),
            !.updated = TRUE]
  ELSE IF op.op = "dispose" THEN [burst EXCEPT !.disposed = TRUE]
  ELSE burst

\* The number of spans that existed at the last dispose (0 before any dispose):
\* the spans the Profiler tracked before it are among the first disposedUpTo.
NextDisposedUpTo(op) == IF op.op = "dispose" THEN Len(spans) ELSE disposedUpTo

NoCalls == [requests |-> [id \in Ids |-> "none"], renders |-> [id \in Ids |-> "none"]]

\* What a finish call records: "stray" while the identifier has never been started.
Finished(before) == IF before \in {"none", "stray"} THEN "stray" ELSE "finish"

\* The last start or finish call per registry and identifier: startRequest and
\* finishRequest are handlers of their own, startRender and finishRender are
\* also called by the Profiler's mount and by its commit.
NextLastCall(w, op) ==
  [requests |->
     IF op.op = "startRequest" THEN [lastCall.requests EXCEPT ![op.id] = "start"]
     ELSE IF op.op = "finishRequest" THEN [lastCall.requests EXCEPT ![op.id] = Finished(@)]
     ELSE lastCall.requests,
   renders |->
     [id \in Ids |->
        IF \E i \in DOMAIN w.trace :
             w.trace[i].call = "startRender" /\ w.trace[i].arg = id
          THEN "start"
        ELSE IF \E i \in DOMAIN w.trace :
                  w.trace[i].call = "finishRender" /\ w.trace[i].arg = id
          THEN Finished(lastCall.renders[id])
        ELSE lastCall.renders[id]]]

\* New activity (startRequest, startRender, also from a mount) cancelled a timer
\* that was pending when it was cleared.
NextPreempted(w, op) ==
  \/ preempted
  \/ /\ op.op \in {"startRequest", "startRender", "mount"}
     /\ \E i \in DOMAIN w.trace : w.trace[i].call = "clearTimeout" /\ w.trace[i].hit

vars == <<progVars, trace, lastOp, flushLog, scn, burst, disposedUpTo, lastCall,
          preempted, recording, series, seriesOut>>

ApmInit ==
  /\ firstPageLoad = TRUE
  /\ requests = EmptyMap
  /\ renders = EmptyMap
  /\ flushTransactionTimeout = Undefined
  /\ interruptFlush = FALSE
  /\ timers = {}
  /\ listening = FALSE
  /\ scopeSpan = Undefined
  /\ spans = <<>>
  /\ navigationStart \in NavigationStarts
  /\ spansById = EmptySpanMap
  /\ commitPending = NoCommit
  /\ trace = <<>>
  /\ lastOp = Op("init", "")
  /\ flushLog = NoFlushes
  /\ scn = NoScenario
  /\ burst = NoBurst
  /\ disposedUpTo = 0
  /\ lastCall = NoCalls
  /\ preempted = FALSE

\* No chart is rendered.
Init ==
  /\ ApmInit
  /\ recording = TRUE
  /\ series = <<>>
  /\ seriesOut = <<>>

\* One handler ran: w is the world it left, op names it.
Step(w, op) ==
  /\ firstPageLoad' = w.firstPageLoad
  /\ requests' = w.requests
  /\ renders' = w.renders
  /\ flushTransactionTimeout' = w.flushTransactionTimeout
  /\ interruptFlush' = w.interruptFlush
  /\ timers' = w.timers
  /\ listening' = w.listening
  /\ scopeSpan' = w.scopeSpan
  /\ spans' = w.spans
  /\ navigationStart' = w.navigationStart
  /\ spansById' = w.spansById
  /\ commitPending' = w.commitPending
  /\ trace' = w.trace
  /\ lastOp' = Op(op.op, op.id)
  /\ flushLog' = NextFlushLog(op)
  /\ scn' = NextScn(op)
  /\ burst' = NextBurst(w, op)
  /\ disposedUpTo' = NextDisposedUpTo(op)
  /\ lastCall' = IF recording THEN NextLastCall(w, op) ELSE lastCall
  /\ preempted' = IF recording THEN NextPreempted(w, op) ELSE preempted
  /\ recording' = recording
  /\ UNCHANGED <<series, seriesOut>>

CanAllocate == Len(spans) < MaxSpans

StartApm ==
  /\ ~listening
  /\ CanAllocate
  /\ Step(startApm(World), Event("startApm", "", 0, 0))

\* Router.browserHistory.listen(() => startTransaction())
RouteChange ==
  /\ listening
  /\ CanAllocate
  /\ Step(startTransaction(World), Event("routeChange", "", 0, 0))

StartRequest(id) == Step(startRequest(World, id), Event("startRequest", id, 0, 0))

FinishRequest(id) == Step(finishRequest(World, id), Event("finishRequest", id, 0, 0))

StartRender(id) == Step(startRender(World, id), Event("startRender", id, 0, 0))

FinishRender(id) == Step(finishRender(World, id), Event("finishRender", id, 0, 0))

FinishTransaction(delay) ==
  Step(finishTransaction(World, delay), Event("finishTransaction", "", 0, 0))

FlushTimerFires ==
  \E t \in timers : Step(flushCallback(World, t.id), Event("flush", "", 0, 0))

HandleRender(id, phase, actualDuration, startTime) ==
  /\ phase = "mount" => CanAllocate
  /\ Step(handleRender(World, id, phase, actualDuration, startTime),
          Event(phase, id, actualDuration, startTime))

CommitTimerFires ==
  /\ commitPending.pending
  /\ Step(commitCallback(World), Event("commitFire", commitPending.id, 0, 0))

Dispose == Step(dispose(World), Event("dispose", "", 0, 0))

\* The tracker under every call sequence of its callers.
Next ==
  \/ StartApm
  \/ RouteChange
  \/ \E id \in Ids : StartRequest(id)
  \/ \E id \in Ids : FinishRequest(id)
  \/ \E id \in Ids : StartRender(id)
  \/ \E id \in Ids : FinishRender(id)
  \/ \E delay \in {0, FlushDelay} : FinishTransaction(delay)
  \/ FlushTimerFires

Spec == Init /\ [][Next]_vars

\* One Profiler instance driving the tracker.
ProfilerNext ==
  \/ StartApm
  \/ \E id \in Ids, phase \in {"mount", "update"}, d \in Durations, s \in StartTimes :
       HandleRender(id, phase, d, s)
  \/ CommitTimerFires
  \/ Dispose
  \/ FlushTimerFires

ProfilerSpec == Init /\ [][ProfilerNext]_vars

\* The tracker with the browser firing every pending timer eventually.
\* The call history of lastCall and preempted is not kept here.
FairInit ==
  /\ ApmInit
  /\ recording = FALSE
  /\ series = <<>>
  /\ seriesOut = <<>>

FairSpec == FairInit /\ [][Next]_vars /\ WF_vars(FlushTimerFires)

\* ------------------------------------------------------------------------
\* Properties
\* ------------------------------------------------------------------------
Calls(name) == {i \in DOMAIN trace : trace[i].call = name}

\* C1: the flush callback runs only while no request and no render is active,
\* and at most once between two consecutive start operations.
C1_FlushOnlyWhenQuiescentAndOnce == ~flushLog.busy /\ flushLog.n <= 1

\* C2: at most one flush timer is pending, and it is the one the handle names:
\* finishTransaction cancels the pending timer before it schedules a new one.
C2_AtMostOnePendingFlush ==
  /\ Cardinality(timers) <= 1
  /\ \A t \in timers : t.id = flushTransactionTimeout

\* C2 witness: a handler cancelled a pending flush timer and scheduled a new one.
C2_Witness ==
  /\ Cardinality(timers) = 1
  /\ \E i \in Calls("clearTimeout"), j \in Calls("setTimeout") : i < j /\ trace[i].hit

\* C3: a route change that finds the scope's span without an end timestamp
\* finishes that span first and starts the new navigation span afterwards.
C3_PreviousSpanFinishedFirst ==
  [][(/\ lastOp'.op = "routeChange"
      /\ scopeSpan # Undefined
      /\ spans[scopeSpan].timestamp = UndefinedTs)
     => (/\ spans'[scopeSpan].timestamp # UndefinedTs
         /\ \E i \in DOMAIN trace', j \in DOMAIN trace' :
              /\ i < j
              /\ trace'[i].call = "finishSpan" /\ trace'[i].arg = scopeSpan
              /\ trace'[j].call = "startSpan" /\ trace'[j].arg = scopeSpan')]_vars

\* C3 witness: a route change finished the previous span and started a new one.
C3_Witness ==
  /\ lastOp.op = "routeChange"
  /\ Calls("finishSpan") # {}
  /\ Calls("startSpan") # {}
  /\ scopeSpan > 1
  /\ spans[scopeSpan - 1].timestamp = Now

ScheduledFlush(delay) ==
  /\ Calls("setTimeout") # {}
  /\ \E t \in timers : t.delay = delay /\ t.id = flushTransactionTimeout

\* C4 as stated: from any quiescent state, after startRequest(a), startRequest(b),
\* finishRequest(a) no flush is scheduled, and finishRequest(b) then schedules a
\* flush of 1 ms, the starts having set the interrupt flag.
C4_ScenarioFromAnyQuiescentState ==
  /\ scn.step = 3 => timers = {} /\ Calls("setTimeout") = {}
  /\ scn.step = 4 => interruptFlush /\ ScheduledFlush(FlushDelay)

\* C4 amended: the same, from a quiescent state in which a flush had been
\* scheduled before (flushTransactionTimeout is set); otherwise the starts set
\* no interrupt flag and finishRequest(b) schedules nothing.
C4_ScenarioAfterFirstFlushScheduled ==
  /\ scn.step = 3 => timers = {} /\ Calls("setTimeout") = {}
  /\ scn.step = 4 /\ scn.scheduled => interruptFlush /\ ScheduledFlush(FlushDelay)
  /\ scn.step = 4 /\ ~scn.scheduled => ~interruptFlush /\ timers = {}

\* C4 witness: the scenario ran to its end after a flush had been scheduled.
C4_Witness == scn.step = 4 /\ scn.scheduled /\ timers # {}

\* C5: once startTransaction has run, whenever both registries are quiescent a
\* flush is pending or has fired in this quiescence (since the last start).
C5_FlushAfterDrain ==
  (~firstPageLoad /\ Quiescent) => (timers # {} \/ flushLog.quiet)

\* The operations C6 counts as new activity: startRequest, startRender,
\* finishRender, and every handler that calls finishTransaction.
NewActivity(op, tr) ==
  \/ op.op \in {"startRequest", "startRender", "finishRender"}
  \/ \E i \in DOMAIN tr : tr[i].call = "finishTransaction"

\* C6: a pending flush timer stays pending until it fires or new activity
\* cancels it, it does fire eventually, and its firing calls Sentry.finishSpan()
\* exactly once and takes the timer away.
C6_ScheduledFlushFires ==
  /\ [][\A t \in timers : t \notin timers' =>
          \/ lastOp'.op = "flush"
          \/ NewActivity(lastOp', trace')]_vars
  /\ [][lastOp'.op = "flush" =>
          /\ Cardinality(timers') = Cardinality(timers) - 1
          /\ Len(trace') = 1
          /\ trace'[1].call = "finishSpan" /\ trace'[1].arg = Undefined]_vars
  /\ (timers # {}) ~> (timers = {})

\* C6 witness: a flush timer fired.
C6_Witness == lastOp.op = "flush" /\ timers = {} /\ Calls("finishSpan") # {}

\* C7: when the debounced commit runs for a mount and the updates that followed
\* it, Sentry.finishSpan is called exactly once for the span (and by no
\* handleRender), and the span's end timestamp is the one of the latest event.
C7_OneFinishWithLatestTimestamp ==
  /\ lastOp.op \in {"mount", "update"} => Calls("finishSpan") = {}
  /\ (lastOp.op = "commitFire" /\ ~burst.disposed) =>
       /\ Cardinality({i \in Calls("finishSpan") : trace[i].arg = burst.span}) = 1
       /\ spans[burst.span].timestamp = burst.latest

\* C8: dispose empties spansById, and a handleRender after a dispose changes no
\* span that existed at that dispose.
C8_DisposeDropsSpans ==
  [][/\ lastOp'.op = "dispose" => DOMAIN spansById' = {}
     /\ lastOp'.op \in {"mount", "update"} =>
          \A sp \in 1..disposedUpTo : spans'[sp] = spans[sp]]_vars

\* C8 witness: an update for an identifier that was tracked before the dispose.
C8_Witness ==
  /\ lastOp.op = "update"
  /\ disposedUpTo > 0
  /\ DOMAIN spansById = {}
  /\ \E sp \in 1..disposedUpTo : spans[sp].op = "react"

\* C9: after a mount the span starts at (T + s) / 1000, and when that mount's
\* commit runs with no update in between the span ends at (T + s + d) / 1000.
C9_MountTimestamps ==
  /\ lastOp.op = "mount" =>
       spans[spansById[lastOp.id]].startTimestamp =
         [kind |-> "number", num |-> navigationStart + burst.startTime, den |-> 1000]
  /\ (lastOp.op = "commitFire" /\ ~burst.updated) =>
       spans[burst.span].timestamp =
         [kind |-> "number",
          num |-> navigationStart + burst.startTime + burst.actualDuration,
          den |-> 1000]

\* C9 witness: the commit of a single mount ran.
C9_Witness ==
  /\ lastOp.op = "commitFire"
  /\ ~burst.updated
  /\ spans[burst.span].timestamp.kind = "number"

\* ------------------------------------------------------------------------
\* PercentageAreaChart: render calls getSeries on its props
\* ------------------------------------------------------------------------
ChartInit ==
  /\ ApmInit
  /\ recording = TRUE
  /\ series \in SeriesInputs
  /\ seriesOut = <<>>

Render ==
  /\ seriesOut' = getSeries(series)
  /\ lastOp' = Op("render", "")
  /\ UNCHANGED <<progVars, trace, flushLog, scn, burst, disposedUpTo, lastCall,
                  preempted, recording, series>>

ChartNext == Render

ChartSpec == ChartInit /\ [][ChartNext]_vars

RECURSIVE SumTenths(_, _, _)
\* The sum of the emitted percentages at index i over the first n series, in tenths.
SumTenths(out, i, n) ==
  IF n = 0 THEN 0 ELSE SumTenths(out, i, n - 1) + out[n][i].value.num

Rendered == lastOp.op = "render" /\ Len(series) > 0

PointTotal(i) == SumValues(series, i, Len(series))

UniqueName(i) == \A j \in DOMAIN series[1] : series[1][j].name = series[1][i].name => j = i

\* C10 as stated: at every index with a non-zero total (its point name naming
\* that point alone, as in a time series) the emitted percentages sum to
\* exactly 100.
C10_PercentagesSumTo100 ==
  Rendered =>
    \A i \in DOMAIN series[1] :
      (PointTotal(i) # 0 /\ UniqueName(i)) =>
        SumTenths(seriesOut, i, Len(series)) = 1000

\* C10 amended: at every index with a non-zero total whose point name occurs
\* once, each emitted percentage is a multiple of 0.1 and the sum over the n
\* series differs from 100 by at most n * 0.05.
C10_PercentagesSumNear100 ==
  Rendered =>
    \A i \in DOMAIN series[1] :
      (PointTotal(i) # 0 /\ UniqueName(i)) =>
        LET sum == SumTenths(seriesOut, i, Len(series))
        IN /\ \A k \in DOMAIN seriesOut : seriesOut[k][i].value.den = 10
           /\ 2 * (sum - 1000) <= Len(series)
           /\ 2 * (1000 - sum) <= Len(series)

\* C10 witness: three equal series, whose percentages sum to 99.9.
C10_Witness ==
  /\ Rendered
  /\ \E i \in DOMAIN series[1] :
       /\ UniqueName(i)
       /\ PointTotal(i) # 0
       /\ SumTenths(seriesOut, i, Len(series)) = 999

\* ------------------------------------------------------------------------
\* Properties of the single operations
\* ------------------------------------------------------------------------
\* C11: a handler that calls finishTransaction while a request or a render is
\* active schedules no timer and leaves none pending.
C11_NoFlushScheduledWhileActive ==
  (Calls("finishTransaction") # {} /\ ~Quiescent) =>
    (Calls("setTimeout") = {} /\ timers = {})

\* The registry entry the last start or finish operation addressed.
Addressed(op) ==
  IF op.op \in {"startRequest", "finishRequest"} THEN requests ELSE renders

\* C12 as stated: after every startRequest(id) and startRender(id) no flush timer
\* is pending, the interrupt flag is true and id is active in its registry.
C12_StartCancelsAndInterrupts ==
  lastOp.op \in {"startRequest", "startRender"} =>
    /\ timers = {}
    /\ interruptFlush
    /\ lastOp.id \in DOMAIN Addressed(lastOp) /\ Addressed(lastOp)[lastOp.id]

\* C12 amended: after every startRequest(id) and startRender(id) no flush timer
\* is pending and id is active; the interrupt flag is set to true when
\* flushTransactionTimeout is set (a flush has been scheduled before) and is
\* left as it was otherwise.
C12_StartCancelsAndInterruptsIfScheduled ==
  [][lastOp'.op \in {"startRequest", "startRender"} =>
       /\ timers' = {}
       /\ interruptFlush' = (interruptFlush \/ flushTransactionTimeout # Undefined)
       /\ flushTransactionTimeout' = flushTransactionTimeout
       /\ lastOp'.op = "startRequest" =>
            lastOp'.id \in DOMAIN requests' /\ requests'[lastOp'.id]
       /\ lastOp'.op = "startRender" =>
            lastOp'.id \in DOMAIN renders' /\ renders'[lastOp'.id]]_vars

\* C12 witness: a start cancelled a pending flush timer and set the flag.
C12_Witness ==
  /\ lastOp.op \in {"startRequest", "startRender"}
  /\ interruptFlush
  /\ \E i \in Calls("clearTimeout") : trace[i].hit

\* C13: finishRequest(id) schedules a flush of 1 ms exactly when, with id marked
\* inactive, both registries are quiescent and the interrupt flag is set;
\* otherwise it leaves the timers alone; it never changes the flag.
C13_FinishRequestFlushesWhenDrained ==
  [][lastOp'.op = "finishRequest" =>
       /\ interruptFlush' = interruptFlush
       /\ lastOp'.id \in DOMAIN requests' /\ ~requests'[lastOp'.id]
       /\ IF interruptFlush /\ Quiescent'
            THEN ScheduledFlush(FlushDelay)' /\ Cardinality(timers') = 1
            ELSE /\ timers' = timers
                 /\ flushTransactionTimeout' = flushTransactionTimeout
                 /\ Calls("setTimeout")' = {}]_vars

\* C13 witness: a finishRequest that drained the registries scheduled the flush.
C13_Witness ==
  /\ lastOp.op = "finishRequest"
  /\ \E id \in DOMAIN requests : TRUE
  /\ ScheduledFlush(FlushDelay)

\* The world with the two registries swapped.
Swapped == [World EXCEPT !.requests = renders, !.renders = requests]

C15_RegistryTracksLastCall ==
  /\ [](\A id \in Ids :
          /\ (id \in DOMAIN requests /\ requests[id]) <=> lastCall.requests[id] = "start"
          /\ (id \in DOMAIN renders /\ renders[id]) <=> lastCall.renders[id] = "start")
  /\ [][/\ DOMAIN requests \subseteq DOMAIN requests'
        /\ DOMAIN renders \subseteq DOMAIN renders']_vars

\* C15 witness: an identifier started and finished stays in its registry as false,
\* while another one is started and active.
C15_Witness ==
  /\ \E id \in DOMAIN requests : ~requests[id] /\ lastCall.requests[id] = "finish"
  /\ \E id \in DOMAIN requests : requests[id] /\ lastCall.requests[id] = "start"
  /\ \E id \in DOMAIN renders : ~renders[id] /\ lastCall.renders[id] = "finish"

\* C16: the interrupt flag is true only if a startRequest or startRender has
\* cancelled a flush timer that was pending when it was cleared.
C16_InterruptOnlyAfterPreemption == interruptFlush => preempted

\* The last handler to run next is a finish for an identifier never started on
\* its registry.
StrayFinish ==
  \/ lastOp'.op = "finishRequest" /\ lastCall.requests[lastOp'.id] \in {"none", "stray"}
  \/ lastOp'.op = "finishRender" /\ lastCall.renders[lastOp'.id] \in {"none", "stray"}

\* C17 as stated: finishRequest(id) and finishRender(id) for an identifier that was
\* never started leave the registries, the pending flush timer and the interrupt
\* flag unchanged.
C17_StrayFinishIsNoOp ==
  [][StrayFinish =>
       /\ requests' = requests
       /\ renders' = renders
       /\ timers' = timers
       /\ interruptFlush' = interruptFlush]_vars

\* C17 amended: finishRequest(id) and finishRender(id) for an identifier that was
\* never started raise no error and change no entry that is active, but they
\* enter id into the registry as inactive and then act as any finish does:
\* finishRender cancels the pending flush timer and sets the interrupt flag when
\* flushTransactionTimeout is set, and either one schedules a flush of 1 ms when
\* the flag is then set and both registries are quiescent.
C17_StrayFinishActsAsFinish ==
  [][StrayFinish =>
       /\ Quiescent' = Quiescent
       /\ IF lastOp'.op = "finishRequest"
            THEN /\ requests' = MapSet(requests, lastOp'.id, FALSE)
                 /\ renders' = renders
                 /\ interruptFlush' = interruptFlush
            ELSE /\ renders' = MapSet(renders, lastOp'.id, FALSE)
                 /\ requests' = requests
                 /\ interruptFlush' =
                      (interruptFlush \/ flushTransactionTimeout # Undefined)
       /\ IF interruptFlush' /\ Quiescent
            THEN ScheduledFlush(FlushDelay)' /\ Cardinality(timers') = 1
          ELSE IF lastOp'.op = "finishRender" /\ flushTransactionTimeout # Undefined
            THEN timers' = {}
          ELSE timers' = timers]_vars

\* C17 witness: a finishRender for an identifier never started has scheduled a flush.
C17_Witness ==
  /\ lastOp.op = "finishRender"
  /\ lastCall.renders[lastOp.id] = "stray"
  /\ ScheduledFlush(FlushDelay)

\* ------------------------------------------------------------------------
\* Properties of the Profiler's events
\* ------------------------------------------------------------------------
\* The span the Profiler tracks for id has been committed.
Committed(id) ==
  /\ id \in DOMAIN spansById
  /\ spans[spansById[id]].finishedSpans # <<>>

\* C18 as stated: once the span for an identifier has been committed, no later
\* handleRender event for that identifier opens a new span or calls startRender.
C18_NoReopenAfterCommit ==
  [][(lastOp'.op \in {"mount", "update"} /\ Committed(lastOp'.id)) =>
       /\ Calls("startSpan")' = {}
       /\ Calls("startRender")' = {}
       /\ Len(spans') = Len(spans)]_vars

\* C18 amended: once the span for an identifier has been committed, an update
\* event for it opens no span, calls no startRender and leaves it committed; a
\* mount event for it goes back to mounted: it calls startRender again and opens
\* a new span that replaces the committed one in spansById.
C18_OnlyMountReopensAfterCommit ==
  [][Committed(lastOp'.id) =>
       /\ lastOp'.op = "update" =>
            /\ Calls("startSpan")' = {}
            /\ Calls("startRender")' = {}
            /\ Len(spans') = Len(spans)
            /\ spansById' = spansById
            /\ renders' = renders
            /\ spans'[spansById'[lastOp'.id]].finishedSpans # <<>>
       /\ lastOp'.op = "mount" =>
            /\ Calls("startSpan")' # {}
            /\ Calls("startRender")' # {}
            /\ Len(spans') = Len(spans) + 1
            /\ spansById'[lastOp'.id] = Len(spans')
            /\ spans'[Len(spans')].finishedSpans = <<>>
            /\ renders'[lastOp'.id]]_vars

\* C18 witness: an update event arrived for an identifier whose span is committed,
\* with no commit pending.
C18_Witness ==
  /\ lastOp.op = "update"
  /\ Committed(lastOp.id)
  /\ ~commitPending.pending
  /\ trace = <<>>

\* C19: an update event changes the tracked span's end timestamp only while that
\* span is open (its commit has not run), and calls neither Sentry.finishSpan nor
\* startRender nor finishRender.
C19_UpdateExtendsOnlyOpenSpan ==
  [][lastOp'.op = "update" =>
       /\ Calls("finishSpan")' = {}
       /\ Calls("startRender")' = {}
       /\ Calls("finishRender")' = {}
       /\ spans' # spans =>
            /\ lastOp'.id \in DOMAIN spansById
            /\ spans[spansById[lastOp'.id]].finishedSpans = <<>>]_vars

\* C20: when no debounced commit is pending, every startRender issued by a mount
\* has been followed by the finishRender for its identifier: no render is active.
C20_RendersFinishedWhenNoCommitPending ==
  ~commitPending.pending => ~HasActive(renders)

\* C21: dispose changes only the Profiler's spansById map; a debounced commit
\* pending at dispose stays pending, and when it fires afterwards it finishes
\* its span and calls finishRender for its identifier.
C21_DisposeOnlyClearsSpansById ==
  [][/\ lastOp'.op = "dispose" =>
          /\ spansById' = EmptySpanMap
          /\ trace' = <<>>
          /\ UNCHANGED <<firstPageLoad, requests, renders, flushTransactionTimeout,
                         interruptFlush, timers, listening, scopeSpan, spans,
                         navigationStart, commitPending>>
     /\ (lastOp'.op = "commitFire" /\ burst.disposed) =>
          /\ commitPending.pending /\ ~commitPending'.pending
          /\ \E i \in Calls("finishSpan")' : trace'[i].arg = commitPending.span
          /\ \E i \in Calls("finishRender")' : trace'[i].arg = commitPending.id
          /\ spans'[commitPending.span].finishedSpans # <<>>
          /\ spans'[commitPending.span].timestamp = commitPending.timestamp
          /\ ~renders'[commitPending.id]]_vars

\* C21 witness: the commit of a mount fired after a dispose had emptied spansById.
C21_Witness ==
  /\ lastOp.op = "commitFire"
  /\ disposedUpTo > 0
  /\ spansById = EmptySpanMap
  /\ Calls("finishSpan") # {}
  /\ Calls("finishRender") # {}

\* C22: the interrupt flag starts false, and once it is true it is true in every
\* later state: no operation resets it.
C22_InterruptFlagMonotone ==
  /\ ~interruptFlush
  /\ [][interruptFlush => interruptFlush']_vars

\* C22 witness: the flag is still true after the flush that followed a drain fired.
C22_Witness ==
  /\ lastOp.op = "flush"
  /\ interruptFlush
  /\ flushLog.quiet
  /\ timers = {}

====
